---- MODULE Spec2Model ----
(***************************************************************************)
(* A model of the news application's three stores:                         *)
(*   - the Identity Store   (accounts: CustomUser, sign-up, profile edit,  *)
(*                           the manager's create_user/create_superuser),  *)
(*   - the Content Store    (articles: Article, Comment and their views),  *)
(*   - the Submission Intake (pages: ContactSubmission, the contact form   *)
(*                           and the admin's bulk actions).                *)
(* Text that the code normalises (usernames, e-mail addresses) is a        *)
(* sequence of one-character strings; other text is a string, with "" the  *)
(* empty string and None the database NULL.                                *)
(***************************************************************************)
EXTENDS Integers, Sequences, FiniteSets, TLC

VARIABLES users, edits, lastOp,
          articles, comments, nextArticleId, nextCommentId, now, context,
          submissions, nextSubmissionId, clock, lastAction

identityVars == <<users, edits, lastOp>>
contentVars == <<articles, comments, nextArticleId, nextCommentId, now, context>>
intakeVars == <<submissions, nextSubmissionId, clock, lastAction>>
vars == <<users, edits, lastOp,
          articles, comments, nextArticleId, nextCommentId, now, context,
          submissions, nextSubmissionId, clock, lastAction>>

\* ------------------------------------------------------------------------
\* Bounds of the model
\* ------------------------------------------------------------------------
MaxEdits == 1
MaxArticles == 2
MaxComments == 1
MaxSubmissions == 2
MaxClock == 1

\* The database NULL of a nullable column.
None == "<None>"

\* ------------------------------------------------------------------------
\* Text helpers
\* ------------------------------------------------------------------------
\* U+00AA (feminine ordinal indicator) is a word character whose NFKC
\* compatibility form is the letter a.
NFKCChar(c) == IF c = "U+00AA" THEN "a" ELSE c

\* unicodedata.normalize("NFKC", username)
normalize_username(s) == [i \in 1..Len(s) |-> NFKCChar(s[i])]

\* str.lower on one character
LowerChar(c) ==
    CASE c = "A" -> "a"
      [] c = "X" -> "x"
      [] OTHER -> c

lower(s) == [i \in 1..Len(s) |-> LowerChar(s[i])]

\* Positions of "@" in s
AtPositions(s) == {i \in 1..Len(s) : s[i] = "@"}

LastAt(s) == CHOOSE i \in AtPositions(s) : \A j \in AtPositions(s) : j <= i

\* BaseUserManager.normalize_email: email.rsplit("@", 1), the domain part
\* lowercased; a string without "@" is returned as it is.
normalize_email(email) ==
    IF AtPositions(email) = {} THEN email
    ELSE SubSeq(email, 1, LastAt(email)) \o
         lower(SubSeq(email, LastAt(email) + 1, Len(email)))

\* EmailValidator: a non-empty user part and domain part around one "@".
IsValidEmail(email) ==
    /\ Cardinality(AtPositions(email)) = 1
    /\ LastAt(email) > 1
    /\ LastAt(email) < Len(email)

\* make_password: the stored credential is a hash, never the raw password.
make_password(raw) == <<"pbkdf2_sha256", raw>>

\* ------------------------------------------------------------------------
\* Inputs
\* ------------------------------------------------------------------------
Usernames == { <<"a">>, <<"b">>, <<"U+00AA">> }
Emails == { <<"a", "@", "x">>, <<"A", "@", "X">> }
BadEmail == <<"a", "x">>
\* The addresses typed into the forms.
FormEmails == { <<"A", "@", "X">>, BadEmail }
Passwords == { "testpass1234" }

\* ------------------------------------------------------------------------
\* Identity Store
\* ------------------------------------------------------------------------
\* The fields of CustomUserCreationForm.Meta (the password pair is declared
\* by UserCreationForm itself).
CreationFormFields == {"first_name", "last_name", "username", "email"}

\* Variant: a change form that also lists the privilege columns.
ChangeFormFields_withFlags ==
    {"first_name", "last_name", "username", "email", "bio", "profile_image",
     "x_link", "linkedin_link", "github_link", "website_link",
     "is_staff", "is_superuser"}

\* The fields of CustomUserChangeForm.Meta.
ChangeFormFields ==
    {"first_name", "last_name", "username", "email", "bio", "profile_image",
     "x_link", "linkedin_link", "github_link", "website_link"}

\* The columns CustomUser adds to AbstractUser, all null=True, blank=True.
LinkFields == {"x_link", "linkedin_link", "github_link", "website_link"}

\* AbstractUser's columns that a form may leave empty (blank=True, no NULL).
BlankTextFields == {"first_name", "last_name"}

\* A new CustomUser row with the column defaults of AbstractUser and
\* CustomUser.
NewUser(pk) ==
    [id |-> pk, username |-> <<>>, email |-> <<>>, password |-> <<>>,
     first_name |-> "", last_name |-> "",
     is_active |-> TRUE, is_staff |-> FALSE, is_superuser |-> FALSE,
     bio |-> None, profile_image |-> None,
     x_link |-> None, linkedin_link |-> None,
     github_link |-> None, website_link |-> None]

UsernameTaken(us, name, exceptId) ==
    \E i \in 1..Len(us) : us[i].id # exceptId /\ us[i].username = name

\* Variant: the e-mail address saved as given.
ManagerCreate_rawEmail(us, username, email, password, staff, super) ==
    [NewUser(Len(us) + 1) EXCEPT
        !.username = normalize_username(username),
        !.email = email,
        !.password = make_password(password),
        !.is_staff = staff, !.is_superuser = super]

\* Variant: the staff flag never set.
ManagerCreate_neverStaff(us, username, email, password, staff, super) ==
    [NewUser(Len(us) + 1) EXCEPT
        !.username = normalize_username(username),
        !.email = normalize_email(email),
        !.password = make_password(password),
        !.is_staff = FALSE, !.is_superuser = super]

\* UserManager._create_user: both texts are normalised, the password is
\* hashed and the row is saved; the unique index on username rejects a
\* duplicate (IntegrityError) and nothing is stored.
ManagerCreate(us, username, email, password, staff, super) ==
    [NewUser(Len(us) + 1) EXCEPT
        !.username = normalize_username(username),
        !.email = normalize_email(email),
        !.password = make_password(password),
        !.is_staff = staff, !.is_superuser = super]

\* The last request: its operation, its outcome, the row it wrote and what it
\* carried; of a rejected request the operation, the error and the username.
Accepted(op, pk, username, email, keys) ==
    [op |-> op, status |-> "ok", id |-> pk,
     username |-> username, email |-> email, keys |-> keys]

Rejected(op, error, pk, username) ==
    [op |-> op, status |-> error, id |-> pk,
     username |-> username, email |-> <<>>, keys |-> {}]

\* User.objects.create_user(username=, email=, password=)
create_user(username, email, password) ==
    LET u == ManagerCreate(users, username, email, password, FALSE, FALSE) IN
    /\ IF UsernameTaken(users, u.username, 0)
       THEN /\ users' = users
            /\ lastOp' = Rejected("create_user", "IntegrityError", 0, username)
       ELSE /\ users' = Append(users, u)
            /\ lastOp' = Accepted("create_user", u.id, username, email, {})
    /\ UNCHANGED <<edits, contentVars, intakeVars>>

\* User.objects.create_superuser(username=, email=, password=)
create_superuser(username, email, password) ==
    LET u == ManagerCreate(users, username, email, password, TRUE, TRUE) IN
    /\ IF UsernameTaken(users, u.username, 0)
       THEN /\ users' = users
            /\ lastOp' = Rejected("create_superuser", "IntegrityError", 0, username)
       ELSE /\ users' = Append(users, u)
            /\ lastOp' = Accepted("create_superuser", u.id, username, email, {})
    /\ UNCHANGED <<edits, contentVars, intakeVars>>

\* ------------------------------------------------------------------------
\* Form binding (ModelForm): a request's POST data is a function from the
\* keys it carries to their values; a key the form has no field for is
\* ignored, a field the request has no key for is cleaned from "no value".
\* ------------------------------------------------------------------------
Supplied(data, f) == f \in DOMAIN data

\* The errors of one field: "required" for the username when it is missing
\* or empty, "invalid" for a malformed e-mail address.
FieldErrors(f, data) ==
    CASE f = "username" ->
            IF ~Supplied(data, f) \/ data[f] = <<>> THEN {"required"} ELSE {}
      [] f = "email" ->
            IF Supplied(data, f) /\ data[f] # <<>> /\ ~IsValidEmail(data[f])
            THEN {"invalid"} ELSE {}
      [] OTHER -> {}

\* Variant: a missing file key clears the file.
CleanedValue_clearImage(f, data, instance) ==
    CASE f = "username" -> normalize_username(data[f])
      [] f = "email" -> IF Supplied(data, f) THEN data[f] ELSE <<>>
      [] f \in BlankTextFields \cup {"bio"} ->
            IF Supplied(data, f) THEN data[f] ELSE ""
      [] f \in LinkFields ->
            IF Supplied(data, f) /\ data[f] # "" THEN data[f] ELSE None
      [] f = "profile_image" ->
            IF Supplied(data, f) /\ data[f] # "" THEN data[f] ELSE None
      [] OTHER -> IF Supplied(data, f) THEN data[f] ELSE FALSE

\* The cleaned value of one field: the field's to_python of the posted value,
\* and for a missing key the field's empty value: "" for a text column, None
\* for a nullable CharField, False for a checkbox, and the instance's current
\* file for a file field (FileField.clean returns the initial value).
CleanedValue(f, data, instance) ==
    CASE f = "username" -> normalize_username(data[f])
      [] f = "email" -> IF Supplied(data, f) THEN data[f] ELSE <<>>
      [] f \in BlankTextFields \cup {"bio"} ->
            IF Supplied(data, f) THEN data[f] ELSE ""
      [] f \in LinkFields ->
            IF Supplied(data, f) /\ data[f] # "" THEN data[f] ELSE None
      [] f = "profile_image" ->
            IF Supplied(data, f) /\ data[f] # "" THEN data[f]
            ELSE instance[f]
      [] OTHER -> IF Supplied(data, f) THEN data[f] ELSE FALSE

\* construct_instance: every field of the form is written to the instance;
\* the columns the form has no field for keep their values.
construct_instance(fields, data, instance) ==
    [k \in DOMAIN instance |->
        IF k \in fields THEN CleanedValue(k, data, instance) ELSE instance[k]]

\* Variant: no uniqueness validation.
FormErrors_noUnique(fields, data, instance, us) ==
    UNION {FieldErrors(f, data) : f \in fields}

\* The form's errors: the fields' own, then validate_unique on the username
\* of the constructed instance (the instance's own row excepted).
FormErrors(fields, data, instance, us) ==
    LET own == UNION {FieldErrors(f, data) : f \in fields} IN
    IF own # {} THEN own
    ELSE IF UsernameTaken(us, normalize_username(data["username"]), instance.id)
         THEN {"unique"}
         ELSE {}

\* The values a request carries for the keys it has.
PostValue(k, username, email) ==
    CASE k = "username" -> username
      [] k = "email" -> email
      [] k = "first_name" -> "Ann"
      [] k = "last_name" -> "Lee"
      [] k = "bio" -> "Hello"
      [] k = "profile_image" -> "profile_images/ann.png"
      [] k \in LinkFields -> "https://x.com/ann"
      [] OTHER -> TRUE

\* Keys that name privilege columns. Every request of the model carries them
\* (a crafted request); neither form has a field for them.
PrivilegeKeys == {"is_staff", "is_superuser"}

\* The key sets of the profile-edit requests: all the form's keys, all but
\* one of them, and the username alone.
EditKeySets ==
    {ChangeFormFields}
        \cup {ChangeFormFields \ {k} : k \in ChangeFormFields}
        \cup {{"username"}}

PostData(keys, username, email) == [k \in keys |-> PostValue(k, username, email)]

\* SignUpView (CreateView over CustomUserCreationForm): form.save() hashes
\* password1 into the new row.
SignUp(data, password) ==
    LET instance == NewUser(Len(users) + 1)
        errors == FormErrors(CreationFormFields, data, instance, users)
        u == [construct_instance(CreationFormFields, data, instance)
                 EXCEPT !.password = make_password(password)]
        uname == IF Supplied(data, "username") THEN data["username"] ELSE <<>>
        mail == IF Supplied(data, "email") THEN data["email"] ELSE <<>>
    IN
    /\ IF errors # {}
       THEN /\ users' = users
            /\ lastOp' = Rejected("signUp", "ValidationError", 0, uname)
       ELSE /\ users' = Append(users, u)
            /\ lastOp' = Accepted("signUp", u.id, uname, mail, DOMAIN data)
    /\ UNCHANGED <<edits, contentVars, intakeVars>>

\* CustomUserAdmin's add view: CustomUserCreationForm over add_fieldsets,
\* UserAdmin's username and password pair plus bio and profile_image.
AdminAddFields == {"username", "bio", "profile_image"}

AdminAddUser(data, password) ==
    LET instance == NewUser(Len(users) + 1)
        errors == FormErrors(AdminAddFields, data, instance, users)
        u == [construct_instance(AdminAddFields, data, instance)
                 EXCEPT !.password = make_password(password)]
        uname == IF Supplied(data, "username") THEN data["username"] ELSE <<>>
    IN
    /\ IF errors # {}
       THEN /\ users' = users
            /\ lastOp' = Rejected("adminAdd", "ValidationError", 0, uname)
       ELSE /\ users' = Append(users, u)
            /\ lastOp' = Accepted("adminAdd", u.id, uname, <<>>, DOMAIN data)
    /\ UNCHANGED <<edits, contentVars, intakeVars>>

\* EditProfileView (UpdateView over CustomUserChangeForm) for the logged-in
\* user pk: get_object returns request.user.
EditProfile(pk, data) ==
    LET instance == users[pk]
        errors == FormErrors(ChangeFormFields, data, instance, users)
        uname == IF Supplied(data, "username") THEN data["username"] ELSE <<>>
        mail == IF Supplied(data, "email") THEN data["email"] ELSE <<>>
    IN
    /\ edits' = edits + 1
    /\ IF errors # {}
       THEN /\ users' = users
            /\ lastOp' = Rejected("updateProfile", "ValidationError", pk, uname)
       ELSE /\ users' = [users EXCEPT
                            ![pk] = construct_instance(ChangeFormFields, data, instance)]
            /\ lastOp' = Accepted("updateProfile", pk, uname, mail, DOMAIN data)
    /\ UNCHANGED <<contentVars, intakeVars>>

\* ------------------------------------------------------------------------
\* Content Store
\* ------------------------------------------------------------------------
Titles == {"", "News"}
EditedTitles == {"", "Update"}
Bodies == {"", "Text"}
CommentTexts == {"", "Nice"}

\* The response of the last content view.
Response(view, status, pk, object_list) ==
    [view |-> view, status |-> status, pk |-> pk, object_list |-> object_list]

UserExists(pk) == pk \in 1..Len(users)

\* get_object: the row with this primary key, if there is one.
ArticleExists(arts, pk) == \E a \in arts : a.id = pk

\* ArticleDetailView: the article, or Http404.
GetArticle(arts, pk) ==
    IF ArticleExists(arts, pk) THEN "ok" ELSE "NotFoundError"

\* ArticleCreateView's form: title, author and body, all required; the
\* author is a choice among the existing users.
ArticleCreateErrors(title, author, body) ==
    (IF title = "" \/ body = "" THEN {"required"} ELSE {})
        \cup (IF ~UserExists(author) THEN {"invalid_choice"} ELSE {})

\* ArticleUpdateView's form: title and body.
ArticleUpdateErrors(title, body) ==
    IF title = "" \/ body = "" THEN {"required"} ELSE {}

\* ArticleCreateView: the date column is set once, when the row is inserted.
ArticleCreate(title, author, body) ==
    /\ IF ArticleCreateErrors(title, author, body) # {}
       THEN /\ context' = Response("article_new", "ValidationError", 0, <<>>)
            /\ UNCHANGED <<articles, nextArticleId>>
       ELSE /\ articles' = articles \cup
                   {[id |-> nextArticleId, title |-> title, body |-> body,
                     author |-> author, date |-> now]}
            /\ nextArticleId' = nextArticleId + 1
            /\ context' = Response("article_new", "ok", nextArticleId, <<>>)
    /\ UNCHANGED <<comments, nextCommentId, now, identityVars, intakeVars>>

\* ArticleUpdateView: fields = ['title', 'body'].
UpdatedArticles(arts, pk, title, body) ==
    {IF a.id = pk THEN [a EXCEPT !.title = title, !.body = body] ELSE a : a \in arts}

ArticleUpdate(pk, title, body) ==
    /\ IF ~ArticleExists(articles, pk)
       THEN /\ context' = Response("article_edit", "NotFoundError", pk, <<>>)
            /\ UNCHANGED articles
       ELSE IF ArticleUpdateErrors(title, body) # {}
       THEN /\ context' = Response("article_edit", "ValidationError", pk, <<>>)
            /\ UNCHANGED articles
       ELSE /\ articles' = UpdatedArticles(articles, pk, title, body)
            /\ context' = Response("article_edit", "ok", pk, <<>>)
    /\ UNCHANGED <<comments, nextArticleId, nextCommentId, now,
                   identityVars, intakeVars>>

\* Variant: the row is left in place.
DeleteObject_keepsRow(arts, pk) == arts

\* ArticleDeleteView: the object's row is deleted.
DeleteObject(arts, pk) == {a \in arts : a.id # pk}

\* The comments that go with a deleted article (Comment.article cascades).
CascadeComments(cmts, pk) == {c \in cmts : c.article # pk}

ArticleDelete(pk) ==
    /\ IF ~ArticleExists(articles, pk)
       THEN /\ context' = Response("article_delete", "NotFoundError", pk, <<>>)
            /\ UNCHANGED <<articles, comments>>
       ELSE /\ articles' = DeleteObject(articles, pk)
            /\ comments' = CascadeComments(comments, pk)
            /\ context' = Response("article_delete", "ok", pk, <<>>)
    /\ UNCHANGED <<nextArticleId, nextCommentId, now, identityVars, intakeVars>>

\* ArticleDetailView
ArticleDetail(pk) ==
    /\ context' = Response("article_detail", GetArticle(articles, pk), pk, <<>>)
    /\ UNCHANGED <<articles, comments, nextArticleId, nextCommentId, now,
                   identityVars, intakeVars>>

\* CommentInline of ArticleAdmin: a comment row saved with its article.
CommentInlineSave(article, author, text) ==
    /\ IF ~ArticleExists(articles, article)
       THEN /\ context' = Response("comment_inline", "NotFoundError", article, <<>>)
            /\ UNCHANGED <<comments, nextCommentId>>
       ELSE IF text = "" \/ ~UserExists(author)
       THEN /\ context' = Response("comment_inline", "ValidationError", article, <<>>)
            /\ UNCHANGED <<comments, nextCommentId>>
       ELSE /\ comments' = comments \cup
                   {[id |-> nextCommentId, article |-> article,
                     author |-> author, comment |-> text]}
            /\ nextCommentId' = nextCommentId + 1
            /\ context' = Response("comment_inline", "ok", article, <<>>)
    /\ UNCHANGED <<articles, nextArticleId, now, identityVars, intakeVars>>

\* self.object.article_set.all(): the articles whose author is this user.
article_set(arts, pk) == {a \in arts : a.author = pk}

\* The listings of a set of rows, each row once.
Listings(rows) ==
    {l \in [1..Cardinality(rows) -> rows] :
        \A i, j \in 1..Cardinality(rows) : i # j => l[i] # l[j]}

\* Variant: order_by("date"), oldest first.
order_by_date_ascending(rows) ==
    {l \in Listings(rows) :
        \A i \in 1..(Cardinality(rows) - 1) : l[i].date <= l[i + 1].date}

\* order_by("-date"): the listings with the dates descending; rows of equal
\* date come in whatever order the database returns them.
order_by_date(rows) ==
    {l \in Listings(rows) :
        \A i \in 1..(Cardinality(rows) - 1) : l[i].date >= l[i + 1].date}

\* ProfileView.get_context_data: context["articles"].
Profile(pk) ==
    /\ IF ~UserExists(pk)
       THEN context' = Response("profile", "NotFoundError", pk, <<>>)
       ELSE \E l \in order_by_date(article_set(articles, pk)) :
               context' = Response("profile", "ok", pk, l)
    /\ UNCHANGED <<articles, comments, nextArticleId, nextCommentId, now,
                   identityVars, intakeVars>>

\* Time passes between requests.
Tick ==
    /\ now' = now + 1
    /\ UNCHANGED <<articles, comments, nextArticleId, nextCommentId, context,
                   identityVars, intakeVars>>

\* ------------------------------------------------------------------------
\* Submission Intake
\* ------------------------------------------------------------------------
ContactNames == {"", "Ann", "Bob"}
ContactEmails == { <<>>, <<"a", "@", "x">>, BadEmail }
Subjects == {"", "Hi"}
Messages == {"", "Hello"}

\* The outcome of the last intake request.
Outcome(op, status, ids, count) ==
    [op |-> op, status |-> status, ids |-> ids, count |-> count]

\* ContactForm: name, email, subject and message are all required, and the
\* e-mail address must be well formed.
ContactFormErrors(name, email, subject, message) ==
    (IF name = "" \/ email = <<>> \/ subject = "" \/ message = ""
     THEN {"required"} ELSE {})
        \cup (IF email # <<>> /\ ~IsValidEmail(email) THEN {"invalid"} ELSE {})

\* A new ContactSubmission row: created_at is set on insert, is_read
\* defaults to False.
NewSubmission(pk, name, email, subject, message, t) ==
    [id |-> pk, name |-> name, email |-> email, subject |-> subject,
     message |-> message, created_at |-> t, is_read |-> FALSE]

\* Variant: the row is saved whether or not the form is valid.
ContactPost_savesInvalid(subs, pk, name, email, subject, message, t) ==
    subs \cup {NewSubmission(pk, name, email, subject, message, t)}

\* ContactPageView.post: form_valid saves the form's row, form_invalid
\* renders the errors and saves nothing.
ContactPost(subs, pk, name, email, subject, message, t) ==
    IF ContactFormErrors(name, email, subject, message) = {}
    THEN subs \cup {NewSubmission(pk, name, email, subject, message, t)}
    ELSE subs

ContactPage(name, email, subject, message) ==
    /\ submissions' = ContactPost(submissions, nextSubmissionId,
                                  name, email, subject, message, clock)
    /\ IF ContactFormErrors(name, email, subject, message) = {}
       THEN /\ nextSubmissionId' = nextSubmissionId + 1
            /\ lastAction' = Outcome("submit", "ok", {nextSubmissionId}, 1)
       ELSE /\ nextSubmissionId' = nextSubmissionId
            /\ lastAction' = Outcome("submit", "ValidationError", {}, 0)
    /\ UNCHANGED <<clock, identityVars, contentVars>>

\* Variant: the update also blanks the name.
QuerysetUpdate_overwritesName(subs, ids, value) ==
    {IF s.id \in ids THEN [s EXCEPT !.is_read = value, !.name = ""] ELSE s : s \in subs}

\* Variant: the update ignores the selection.
QuerysetUpdate_allRows(subs, ids, value) ==
    {[s EXCEPT !.is_read = value] : s \in subs}

\* queryset.update(is_read=value) over the rows whose ids were selected:
\* the rows after the update ...
QuerysetUpdate(subs, ids, value) ==
    {IF s.id \in ids THEN [s EXCEPT !.is_read = value] ELSE s : s \in subs}

\* ... and the count it returns, the number of rows matched.
UpdatedCount(subs, ids) == Cardinality({s \in subs : s.id \in ids})

\* ContactSubmissionAdmin.mark_as_read
mark_as_read(ids) ==
    /\ submissions' = QuerysetUpdate(submissions, ids, TRUE)
    /\ lastAction' = Outcome("markRead", "ok", ids, UpdatedCount(submissions, ids))
    /\ UNCHANGED <<nextSubmissionId, clock, identityVars, contentVars>>

\* ContactSubmissionAdmin.mark_as_unread
mark_as_unread(ids) ==
    /\ submissions' = QuerysetUpdate(submissions, ids, FALSE)
    /\ lastAction' = Outcome("markUnread", "ok", ids, UpdatedCount(submissions, ids))
    /\ UNCHANGED <<nextSubmissionId, clock, identityVars, contentVars>>

\* list_filter = ('is_read', ...): the change list filtered by is_read.
ListSubmissions(subs, isRead) == {s \in subs : s.is_read = isRead}

ChangeList(isRead) ==
    /\ lastAction' = Outcome("list", "ok",
                             {s.id : s \in ListSubmissions(submissions, isRead)},
                             Cardinality(ListSubmissions(submissions, isRead)))
    /\ UNCHANGED <<submissions, nextSubmissionId, clock, identityVars, contentVars>>

\* Time passes between requests.
ClockTick ==
    /\ clock' = clock + 1
    /\ UNCHANGED <<submissions, nextSubmissionId, lastAction,
                   identityVars, contentVars>>

\* ------------------------------------------------------------------------
\* Initial states and specifications
\* ------------------------------------------------------------------------
IdentityInit ==
    /\ users = <<>>
    /\ edits = 0
    /\ lastOp = Accepted("none", 0, <<>>, <<>>, {})

\* Two accounts made with create_user, the authors of the Content Store.
SeedUsers ==
    LET first == ManagerCreate(<<>>, <<"a">>, <<"a", "@", "x">>,
                               "testpass1234", FALSE, FALSE)
    IN <<first, ManagerCreate(<<first>>, <<"b">>, <<"a", "@", "x">>,
                              "testpass1234", FALSE, FALSE)>>

SeededIdentityInit ==
    /\ users = SeedUsers
    /\ edits = 0
    /\ lastOp = Accepted("create_user", 2, <<"b">>, <<"a", "@", "x">>, {})

ContentInit ==
    /\ articles = {}
    /\ comments = {}
    /\ nextArticleId = 1
    /\ nextCommentId = 1
    /\ now = 0
    /\ context = Response("none", "ok", 0, <<>>)

IntakeInit ==
    /\ submissions = {}
    /\ nextSubmissionId = 1
    /\ clock = 0
    /\ lastAction = Outcome("none", "ok", {}, 0)

Init == IdentityInit /\ ContentInit /\ IntakeInit

\* The database once two users are registered.
SeededInit == SeededIdentityInit /\ ContentInit /\ IntakeInit

IdentityNext ==
    \/ \E username \in Usernames, email \in Emails, password \in Passwords :
          create_user(username, email, password)
    \/ \E username \in Usernames, email \in Emails, password \in Passwords :
          create_superuser(username, email, password)
    \/ \E username \in Usernames \cup {<<>>}, email \in FormEmails,
          password \in Passwords :
          SignUp(PostData(CreationFormFields \cup PrivilegeKeys, username, email),
                 password)
    \/ \E username \in Usernames, password \in Passwords :
          AdminAddUser(PostData(AdminAddFields, username, <<>>), password)
    \/ /\ edits < MaxEdits
       /\ \E pk \in 1..Len(users), keys \in EditKeySets,
             username \in Usernames, email \in FormEmails :
             EditProfile(pk, PostData(keys \cup PrivilegeKeys, username, email))

ArticleNext ==
    \/ /\ nextArticleId <= MaxArticles
       /\ \E title \in Titles, author \in 1..(Len(users) + 1), body \in Bodies :
             ArticleCreate(title, author, body)
    \/ \E pk \in 1..MaxArticles, title \in EditedTitles, body \in Bodies :
          ArticleUpdate(pk, title, body)
    \/ \E pk \in 1..MaxArticles : ArticleDelete(pk)
    \/ \E pk \in 1..MaxArticles : ArticleDetail(pk)
    \/ /\ nextCommentId <= MaxComments
       /\ \E article \in 1..MaxArticles, author \in 1..(Len(users) + 1),
             text \in CommentTexts :
             CommentInlineSave(article, author, text)

ProfileNext ==
    \/ /\ nextArticleId <= MaxArticles
       /\ \E title \in Titles, author \in 1..(Len(users) + 1), body \in Bodies :
             ArticleCreate(title, author, body)
    \/ \E pk \in 1..MaxArticles : ArticleDelete(pk)
    \/ \E pk \in 1..(Len(users) + 1) : Profile(pk)
    \/ /\ now < MaxClock
       /\ Tick

IntakeNext ==
    \/ /\ nextSubmissionId <= MaxSubmissions
       /\ \E name \in ContactNames, email \in ContactEmails,
             subject \in Subjects, message \in Messages :
             ContactPage(name, email, subject, message)
    \/ \E ids \in SUBSET (1..MaxSubmissions) : ids # {} /\ mark_as_read(ids)
    \/ \E ids \in SUBSET (1..MaxSubmissions) : ids # {} /\ mark_as_unread(ids)
    \/ \E isRead \in BOOLEAN : ChangeList(isRead)
    \/ /\ clock < MaxClock
       /\ ClockTick

Next == IdentityNext \/ ArticleNext \/ ProfileNext \/ IntakeNext

\* The three stores together.
Spec == Init /\ [][Next]_vars

\* The Identity Store on its own.
IdentitySpec == Init /\ [][IdentityNext]_vars

\* The articles and their comments, over two existing accounts.
ArticleSpec == SeededInit /\ [][ArticleNext]_vars

\* The profile page's article list, over two existing accounts and with time
\* passing between the requests.
ProfileSpec == SeededInit /\ [][ProfileNext]_vars

\* The Submission Intake on its own.
IntakeSpec == Init /\ [][IntakeNext]_vars

\* ------------------------------------------------------------------------
\* Claims about the Identity Store (checked under IdentitySpec)
\* ------------------------------------------------------------------------
TheUser == users[lastOp.id]

\* C1 as stated: a user made by create_user is active, not staff, not
\* superuser, and its stored username and e-mail are exactly the inputs.
C1_StoredEqualsInput ==
    (lastOp.op = "create_user" /\ lastOp.status = "ok") =>
        /\ TheUser.is_active /\ ~TheUser.is_staff /\ ~TheUser.is_superuser
        /\ TheUser.username = lastOp.username
        /\ TheUser.email = lastOp.email

\* C1 amended: create_user succeeds exactly when the NFKC form of the
\* username is not taken, and then appends one user that is active, not
\* staff, not superuser, whose stored username is the NFKC form of the input
\* and whose stored e-mail is the input with its domain part lowercased; a
\* refused call stores nothing.
C1_CreateUserNormalises ==
    [][lastOp'.op = "create_user" =>
        IF UsernameTaken(users, normalize_username(lastOp'.username), 0)
        THEN lastOp'.status = "IntegrityError" /\ users' = users
        ELSE /\ lastOp'.status = "ok"
             /\ Len(users') = Len(users) + 1
             /\ SubSeq(users', 1, Len(users)) = users
             /\ lastOp'.id = Len(users')
             /\ users'[lastOp'.id].is_active
             /\ ~users'[lastOp'.id].is_staff
             /\ ~users'[lastOp'.id].is_superuser
             /\ users'[lastOp'.id].username = normalize_username(lastOp'.username)
             /\ users'[lastOp'.id].email = normalize_email(lastOp'.email)]_vars

\* C1's case: create_user has stored an address whose domain it lowercased.
C1_Witness ==
    /\ lastOp.op = "create_user" /\ lastOp.status = "ok"
    /\ TheUser.email # lastOp.email
    /\ TheUser.email = normalize_email(lastOp.email)

\* C2 as stated: a user made by create_superuser is active, staff and
\* superuser, and its stored username and e-mail equal the inputs.
C2_SuperuserStoredEqualsInput ==
    (lastOp.op = "create_superuser" /\ lastOp.status = "ok") =>
        /\ TheUser.is_active /\ TheUser.is_staff /\ TheUser.is_superuser
        /\ TheUser.username = lastOp.username
        /\ TheUser.email = lastOp.email

\* C2 amended: create_superuser succeeds exactly when the NFKC form of the
\* username is not taken, and then appends one user that is active, staff
\* and superuser, whose stored username is the NFKC form of the input and
\* whose stored e-mail is the input with its domain part lowercased.
C2_CreateSuperuserNormalises ==
    [][lastOp'.op = "create_superuser" =>
        IF UsernameTaken(users, normalize_username(lastOp'.username), 0)
        THEN lastOp'.status = "IntegrityError" /\ users' = users
        ELSE /\ lastOp'.status = "ok"
             /\ Len(users') = Len(users) + 1
             /\ SubSeq(users', 1, Len(users)) = users
             /\ lastOp'.id = Len(users')
             /\ users'[lastOp'.id].is_active
             /\ users'[lastOp'.id].is_staff
             /\ users'[lastOp'.id].is_superuser
             /\ users'[lastOp'.id].username = normalize_username(lastOp'.username)
             /\ users'[lastOp'.id].email = normalize_email(lastOp'.email)]_vars

\* C2's case: create_superuser has stored a username it normalised.
C2_Witness ==
    /\ lastOp.op = "create_superuser" /\ lastOp.status = "ok"
    /\ TheUser.is_staff /\ TheUser.is_superuser
    /\ TheUser.username # lastOp.username
    /\ TheUser.username = normalize_username(lastOp.username)

UniqueUsernames(us) ==
    \A i, j \in 1..Len(us) : i # j => us[i].username # us[j].username

ProfileFields ==
    {"first_name", "last_name", "email", "bio", "profile_image"} \cup LinkFields

\* The empty value a profile field is reset to when its key is missing.
EmptyValue(f) ==
    CASE f = "email" -> <<>>
      [] f \in LinkFields -> None
      [] OTHER -> ""

C9_SelfServiceKeepsFlags ==
    [][lastOp'.op \in {"signUp", "updateProfile"} =>
        /\ Len(users') >= Len(users)
        /\ \A i \in 1..Len(users) :
              /\ users'[i].is_staff = users[i].is_staff
              /\ users'[i].is_superuser = users[i].is_superuser
        /\ \A i \in (Len(users) + 1)..Len(users') :
              ~users'[i].is_staff /\ ~users'[i].is_superuser]_vars

\* C9's case: a profile update that carried the privilege keys was accepted
\* for a user who is not staff, with a superuser in the store.
C9_Witness ==
    /\ lastOp.op = "updateProfile" /\ lastOp.status = "ok"
    /\ PrivilegeKeys \subseteq lastOp.keys
    /\ ~TheUser.is_staff /\ ~TheUser.is_superuser
    /\ \E i \in 1..Len(users) : users[i].is_superuser

\* ------------------------------------------------------------------------
\* Claims about the Content Store
\* ------------------------------------------------------------------------
\* C5 (ArticleSpec): once a delete of an article is accepted, a lookup of
\* that article fails with NotFoundError and no comment of it is left; the
\* other articles and their comments are as before, and no comment ever
\* points at an article that is gone.
C5_DeleteCascades ==
    [][/\ (context'.view = "article_delete" /\ context'.status = "ok") =>
            /\ ArticleExists(articles, context'.pk)
            /\ GetArticle(articles', context'.pk) = "NotFoundError"
            /\ \A c \in comments' : c.article # context'.pk
            /\ \A a \in articles : a.id # context'.pk => a \in articles'
            /\ \A c \in comments : c.article # context'.pk => c \in comments'
            /\ articles' \subseteq articles
            /\ comments' \subseteq comments
       /\ \A c \in comments' : ArticleExists(articles', c.article)]_vars

\* C5's case: an article that had a comment was deleted, the comment went
\* with it, and another article is still there.
C5_Witness ==
    /\ context.view = "article_delete" /\ context.status = "ok"
    /\ nextCommentId > 1
    /\ comments = {}
    /\ articles # {}

\* C10 (ProfileSpec): the profile page lists exactly the articles of that
\* user, each once, with the creation dates non-increasing from one entry to
\* the next.
C10_NewestFirst ==
    (context.view = "profile" /\ context.status = "ok") =>
        LET l == context.object_list IN
        /\ {l[i] : i \in 1..Len(l)} = article_set(articles, context.pk)
        /\ Len(l) = Cardinality(article_set(articles, context.pk))
        /\ \A i \in 1..(Len(l) - 1) : l[i].date >= l[i + 1].date

\* C10's case: a profile page with two articles of different dates.
C10_Witness ==
    /\ context.view = "profile" /\ context.status = "ok"
    /\ Len(context.object_list) >= 2
    /\ context.object_list[1].date > context.object_list[2].date

\* ------------------------------------------------------------------------
\* Claims about the Submission Intake (checked under IntakeSpec)
\* ------------------------------------------------------------------------
SameContent(s, t) ==
    /\ t.id = s.id
    /\ t.name = s.name /\ t.email = s.email
    /\ t.subject = s.subject /\ t.message = s.message
    /\ t.created_at = s.created_at

\* C6: an accepted submission is stored unread; markRead returns the number
\* of stored submissions among the selected ids and leaves each of them in
\* the is_read listing; a submission in that listing stays in it over every
\* step that is not a markUnread selecting it.
C6_ReadFlag ==
    [][/\ (lastAction'.op = "submit" /\ lastAction'.status = "ok") =>
            \E s \in submissions' : s.id \in lastAction'.ids /\ s.is_read = FALSE
       /\ (lastAction'.op = "markRead") =>
            /\ lastAction'.count =
                  Cardinality({s \in submissions : s.id \in lastAction'.ids})
            /\ \A s \in submissions : s.id \in lastAction'.ids =>
                  \E t \in ListSubmissions(submissions', TRUE) : t.id = s.id
       /\ \A s \in ListSubmissions(submissions, TRUE) :
            ~(lastAction'.op = "markUnread" /\ s.id \in lastAction'.ids) =>
                \E t \in ListSubmissions(submissions', TRUE) : t.id = s.id]_vars

\* C6's case: markRead of the one id of a stored submission returned 1 and
\* the submission is in the is_read listing, next to an unread one.
C6_Witness ==
    /\ lastAction.op = "markRead" /\ lastAction.count = 1
    /\ Cardinality(lastAction.ids) = 1
    /\ \E s \in ListSubmissions(submissions, TRUE) : s.id \in lastAction.ids
    /\ ListSubmissions(submissions, FALSE) # {}

\* C7: a contact request with an empty name, e-mail address, subject or
\* message fails with ValidationError and leaves the stored submissions as
\* they were.
C7_EmptyFieldRejected ==
    [][\A name \in ContactNames, email \in ContactEmails,
          subject \in Subjects, message \in Messages :
          (/\ name = "" \/ email = <<>> \/ subject = "" \/ message = ""
           /\ ContactPage(name, email, subject, message)) =>
              /\ lastAction'.status = "ValidationError"
              /\ submissions' = submissions]_vars

\* C7's case: a request was refused while a submission was in the store.
C7_Witness ==
    /\ lastAction.op = "submit" /\ lastAction.status = "ValidationError"
    /\ submissions # {}

\* C8: every stored submission is still stored after every step, with the
\* name, e-mail address, subject, message and created_at it had.
C8_ContentImmutable ==
    [][\A s \in submissions : \E t \in submissions' : SameContent(s, t)]_vars

\* C8's case: two submissions with different content, made at different
\* times, one read and one just marked unread.
C8_Witness ==
    /\ lastAction.op = "markUnread"
    /\ \E s, t \in submissions :
          /\ s.name # t.name /\ s.created_at # t.created_at
          /\ s.is_read /\ ~t.is_read /\ t.id \in lastAction.ids
====
